---------------------------- MODULE Spec2Model ----------------------------
(***************************************************************************)
(* Patient Management System: the REST handlers of backend/main.py, the    *)
(* request schemas of backend/schemas.py and the tables of                 *)
(* backend/models.py, as a state machine over the persistent store.        *)
(*                                                                         *)
(* Units.  Floats are fixed point: a height is in centimetres (1.75 m is   *)
(* 175), a weight is in kilograms, a bmi is in hundredths (22.86 is 2286). *)
(* A nullable value is a cell: <<>> is None/NULL and <<v>> holds v.        *)
(***************************************************************************)
EXTENDS Integers, Sequences, FiniteSets, TLC

\* ------------------------------------------------------------------ bounds
MaxTime == 1
MaxPatientId == 2

\* ------------------------------------------------------------------- cells
None == <<>>
Some(v) == <<v>>
Val(c) == c[1]

\* ----------------------------------------------- schemas.py: derived fields
\* Python's round(x, 2) of the quotient num/den: to the nearest hundredth.  An
\* exact tie (1.60 m and 24 kg: 9.375) goes to the even hundredth here and
\* where the float quotient's error puts it in Python; the heights and weights
\* of the behaviours below have no tie.
round2(num, den) ==
    LET q == num \div den
        r == num % den
    IN  IF 2 * r < den THEN q
        ELSE IF 2 * r > den THEN q + 1
        ELSE IF q % 2 = 0 THEN q ELSE q + 1

\* bmi cut to two decimals instead of rounded.
bmi_truncated(weight, height) == (weight * 1000000) \div (height * height)

\* PatientResponse.bmi: round(weight / (height ** 2), 2), height in cm.
bmi(weight, height) == round2(weight * 1000000, height * height)

\* verdict with the boundaries in the lower bracket (<= for <).
verdict_lower(bmi_value) ==
    IF bmi_value <= 1850 THEN "Underweight"
    ELSE IF bmi_value <= 2500 THEN "Normal"
    ELSE IF bmi_value <= 3000 THEN "Overweight"
    ELSE "Obese"

\* PatientResponse.verdict over the rounded bmi (hundredths).
verdict(bmi_value) ==
    IF bmi_value < 1850 THEN "Underweight"
    ELSE IF bmi_value < 2500 THEN "Normal"
    ELSE IF bmi_value < 3000 THEN "Overweight"
    ELSE "Obese"


\* -------------------------------------------------- schemas.py: validation
\* An address is the tuple of its parts around "@"; EmailStr accepts exactly
\* one "@" between two non-empty parts.
EmailStr(c) == c # None /\ Len(Val(c)) = 2 /\ \A i \in 1..2 : Len(Val(c)[i]) > 0

\* DoctorRegister: name a str, email an EmailStr, password a str of at least
\* 6 characters.  The fields that fail, as the 422 body lists them.
DoctorRegister(data) ==
    {f \in {"name", "email", "password"} :
        CASE f = "name" -> data.name = None
          [] f = "email" -> ~EmailStr(data.email)
          [] f = "password" -> data.password = None \/ Len(Val(data.password)) < 6}

\* DoctorLogin: email an EmailStr, password a str (no length constraint).
DoctorLogin(data) ==
    {f \in {"email", "password"} :
        CASE f = "email" -> ~EmailStr(data.email)
          [] f = "password" -> data.password = None}

GenderLiteral == {"male", "female", "others"}
PatientFields ==
    {"name", "city", "age", "gender", "height", "weight", "diagnosis", "prescription"}
OptionalFields == {"diagnosis", "prescription"}

\* The constraints with age declared ge=0, le=120 instead of gt=0, lt=120.
FieldConstraint_inclusive(f, v) ==
    CASE f = "age" -> v >= 0 /\ v <= 120
      [] f = "gender" -> v \in GenderLiteral
      [] f = "height" -> v > 0
      [] f = "weight" -> v > 0
      [] OTHER -> TRUE

\* The Field(...) constraint of one field on a value that is not None; the
\* same declarations stand in PatientCreate and PatientUpdate.
FieldConstraint(f, v) ==
    CASE f = "age" -> v > 0 /\ v < 120
      [] f = "gender" -> v \in GenderLiteral
      [] f = "height" -> v > 0
      [] f = "weight" -> v > 0
      [] OTHER -> TRUE

\* PatientCreate: the six required fields present and not None, every given
\* value within its constraint; diagnosis and prescription Optional.  The
\* fields that fail.
PatientCreate(data) ==
    {f \in PatientFields :
        IF f \notin DOMAIN data \/ data[f] = None THEN f \notin OptionalFields
        ELSE ~FieldConstraint(f, Val(data[f]))}

\* PatientUpdate: every field Optional with default None, so an omitted field
\* and an explicit null both pass; a value that is not None must meet its
\* constraint.  The fields that fail.
PatientUpdate(data) ==
    {f \in DOMAIN data \cap PatientFields : data[f] # None /\ ~FieldConstraint(f, Val(data[f]))}

\* model_dump() of a validated PatientCreate: all eight fields, defaults filled.
create_dump(data) ==
    [f \in PatientFields |-> IF f \in DOMAIN data THEN data[f] ELSE None]

\* model_dump() without exclude_unset: every field, the unset ones as None.
update_dump_all(data) ==
    [f \in PatientFields |-> IF f \in DOMAIN data THEN data[f] ELSE None]

\* model_dump(exclude_unset=True): exactly the fields the payload carried;
\* a key that is no field of PatientUpdate was dropped by validation.
update_dump(data) == [f \in DOMAIN data \cap PatientFields |-> data[f]]

\* --------------------------------------------------- models.py: the tables
\* The patients table with name declared without nullable=False.
PatientNotNull_but_name(row) == \A f \in {"city", "age", "gender", "height", "weight"} : row[f] # None

\* Column(..., nullable=False) of the patients table.
NotNullColumns == {"name", "city", "age", "gender", "height", "weight"}
PatientNotNull(row) == \A f \in NotNullColumns : row[f] # None

\* The doctors table without the unique index on email.
no_unique_index(rows, email) == TRUE

\* Column(String(255), unique=True) on doctors.email.
DoctorEmailUnique(rows, email) == \A d \in rows : d.email # email

\* ------------------------------------------------------------------- state
VARIABLES
    doctors,        \* the doctors table: a set of rows
    patients,       \* the patients table: a set of rows
    nextDoctorId,   \* autoincrement of doctors.id
    nextPatientId,  \* autoincrement of patients.id
    now,            \* the server clock
    issued,         \* every token login has returned so far
    pc,             \* each worker's place in register_doctor
    pending,        \* the DoctorRegister a worker is between lookup and insert with
    creds,          \* history: the <<email, password>> of every register answered 201
    response        \* the response sent last, with the endpoint that sent it

vars == <<doctors, patients, nextDoctorId, nextPatientId, now, issued, pc,
          pending, creds, response>>

Workers == {1, 2}

\* ------------------------------------------------- auth.py (not in src/)
SECRET_KEY == "process-secret"
\* The token's time to live, in ticks of the clock: one tick is one TTL.
ACCESS_TOKEN_EXPIRE_MINUTES == 1

\* hash(password) -> digest, verify(password, digest) -> bool.
get_password_hash(password) == <<"digest", password>>
verify_password(plain_password, hashed_password) ==
    hashed_password = get_password_hash(plain_password)

\* A signed token of subject and absolute expiry.
create_access_token(data, expires_delta) ==
    [sub |-> data.sub, exp |-> now + expires_delta, sig |-> SECRET_KEY]

\* verify(token) -> subject | Invalid: the signature matches and the expiry
\* has not passed.
verify_token(token) ==
    IF token.sig = SECRET_KEY /\ now < token.exp THEN Some(token.sub) ELSE None

\* The guard: bearer token present, verified, and its subject a stored doctor.
get_current_doctor(cred) ==
    IF cred = None THEN None
    ELSE LET subject == verify_token(Val(cred))
         IN  IF subject = None THEN None
             ELSE LET found == {d \in doctors : d.email = Val(subject)}
                  IN  IF found = {} THEN None ELSE Some(CHOOSE d \in found : TRUE)

\* ------------------------------------------------------------- responses
NoBody == [doctor |-> None, token |-> None, patients |-> {}]
Reply(op, status, detail, body) ==
    [op |-> op, status |-> status, detail |-> detail, errors |-> {},
     challenge |-> FALSE, doctor |-> body.doctor, token |-> body.token,
     patients |-> body.patients]

\* 422 with the failing fields.
ValidationError(op, fields) ==
    [Reply(op, 422, "validation error", NoBody) EXCEPT !.errors = fields]
\* 401 with WWW-Authenticate: Bearer.
Unauthenticated(op) ==
    [Reply(op, 401, "Could not validate credentials", NoBody) EXCEPT !.challenge = TRUE]
PatientNotFound(op) == Reply(op, 404, "Patient not found", NoBody)
\* An exception no handler catches, here the store's IntegrityError.
ServerFault(op) == Reply(op, 500, "Internal Server Error", NoBody)

\* DoctorResponse: the public projection, never the digest.  The doctors'
\* created_at, which no handler reads or writes, is left out of row and answer.
DoctorResponse(d) == [id |-> d.id, name |-> d.name, email |-> d.email]

\* PatientResponse: the stored columns plus the computed bmi and verdict.
PatientResponse(row) ==
    LET b == bmi(Val(row.weight), Val(row.height))
    IN  row @@ ("bmi" :> b) @@ ("verdict" :> verdict(b))

\* ------------------------------------------------------------------- Init
Init ==
    /\ doctors = {}
    /\ patients = {}
    /\ nextDoctorId = 1
    /\ nextPatientId = 1
    /\ now = 0
    /\ issued = {}
    /\ pc = [w \in Workers |-> "idle"]
    /\ pending = [w \in Workers |-> None]
    /\ creds = {}
    /\ response = Reply("root", 200, "online", NoBody)

\* The clock advances between requests.
Tick ==
    /\ now < MaxTime
    /\ now' = now + 1
    /\ UNCHANGED <<doctors, patients, nextDoctorId, nextPatientId, issued, pc,
                   pending, creds, response>>

\* ----------------------------------------------------- POST /auth/register
\* Validation and "Check if doctor already exists" (main.py 50-55).
register_lookup(w, data) ==
    /\ pc[w] = "idle"
    /\ IF DoctorRegister(data) # {}
       THEN /\ response' = ValidationError("register", DoctorRegister(data))
            /\ UNCHANGED <<pc, pending>>
       ELSE IF \E d \in doctors : d.email = Val(data.email)
       THEN /\ response' = Reply("register", 400, "Email already registered", NoBody)
            /\ UNCHANGED <<pc, pending>>
       ELSE /\ pc' = [pc EXCEPT ![w] = "insert"]
            /\ pending' = [pending EXCEPT ![w] = Some(data)]
            /\ UNCHANGED response
    /\ UNCHANGED <<doctors, patients, nextDoctorId, nextPatientId, now, issued, creds>>

\* register_doctor storing the password as given instead of its digest.
new_doctor_plain(data) ==
    [id |-> nextDoctorId, name |-> Val(data.name), email |-> Val(data.email),
     password_hash |-> <<Val(data.password)>>]

\* The row register_doctor builds (main.py 58-63).
new_doctor(data) ==
    [id |-> nextDoctorId, name |-> Val(data.name), email |-> Val(data.email),
     password_hash |-> get_password_hash(Val(data.password))]

\* "Create new doctor": add, commit, refresh, return (main.py 58-68); the
\* commit fails on the unique index of doctors.email.
register_insert(w) ==
    /\ pc[w] = "insert"
    /\ LET data == Val(pending[w])
           row == new_doctor(data)
       IN  IF DoctorEmailUnique(doctors, row.email)
           THEN /\ doctors' = doctors \cup {row}
                /\ nextDoctorId' = nextDoctorId + 1
                /\ creds' = creds \cup {<<row.email, Val(data.password)>>}
                /\ response' = Reply("register", 201, "", 
                                     [NoBody EXCEPT !.doctor = Some(DoctorResponse(row))])
           ELSE /\ response' = ServerFault("register")
                /\ UNCHANGED <<doctors, nextDoctorId, creds>>
    /\ pc' = [pc EXCEPT ![w] = "idle"]
    /\ pending' = [pending EXCEPT ![w] = None]
    /\ UNCHANGED <<patients, nextPatientId, now, issued>>

\* -------------------------------------------------------- POST /auth/login
\* "Find doctor by email" and the guard of main.py 73-74: the doctor, or None
\* when there is none or the password does not verify.
login_check(data) ==
    LET found == {d \in doctors : d.email = Val(data.email)}
    IN  IF found = {}
           \/ ~verify_password(Val(data.password), (CHOOSE d \in found : TRUE).password_hash)
        THEN None
        ELSE Some(CHOOSE d \in found : TRUE)

\* login_doctor telling an unknown email from a wrong password.
login_reject_by_cause(data) ==
    IF \E d \in doctors : d.email = Val(data.email)
    THEN [Reply("login", 401, "Incorrect email or password", NoBody) EXCEPT !.challenge = TRUE]
    ELSE Reply("login", 404, "Email not registered", NoBody)

\* The HTTPException of main.py 75-79, one for both failures.
login_reject(data) ==
    [Reply("login", 401, "Incorrect email or password", NoBody) EXCEPT !.challenge = TRUE]

login_doctor(data) ==
    /\ IF DoctorLogin(data) # {}
       THEN response' = ValidationError("login", DoctorLogin(data)) /\ UNCHANGED issued
       ELSE IF login_check(data) = None
       THEN response' = login_reject(data) /\ UNCHANGED issued
       ELSE LET doctor == Val(login_check(data))
                access_token == create_access_token([sub |-> doctor.email],
                                                    ACCESS_TOKEN_EXPIRE_MINUTES)
            IN  /\ issued' = issued \cup {access_token}
                /\ response' = Reply("login", 200, "bearer",
                                     [NoBody EXCEPT !.token = Some(access_token)])
    /\ UNCHANGED <<doctors, patients, nextDoctorId, nextPatientId, now, pc, pending, creds>>

\* ------------------------------------------------------------ GET /auth/me
get_current_doctor_info(cred) ==
    /\ response' = IF get_current_doctor(cred) = None THEN Unauthenticated("me")
                   ELSE Reply("me", 200, "",
                              [NoBody EXCEPT !.doctor =
                                  Some(DoctorResponse(Val(get_current_doctor(cred))))])
    /\ UNCHANGED <<doctors, patients, nextDoctorId, nextPatientId, now, issued, pc,
                   pending, creds>>

\* ----------------------------------------------------------- POST /patients
\* Patient(**patient_data.model_dump()) with the generated id and timestamp.
new_patient(data) ==
    create_dump(data) @@ ("id" :> nextPatientId) @@ ("created_at" :> now)

create_patient(cred, data) ==
    /\ (get_current_doctor(cred) # None /\ PatientCreate(data) = {})
          => nextPatientId <= MaxPatientId
    /\ IF get_current_doctor(cred) = None
       THEN response' = Unauthenticated("create") /\ UNCHANGED <<patients, nextPatientId>>
       ELSE IF PatientCreate(data) # {}
       THEN /\ response' = ValidationError("create", PatientCreate(data))
            /\ UNCHANGED <<patients, nextPatientId>>
       ELSE IF ~PatientNotNull(new_patient(data))
       THEN response' = ServerFault("create") /\ UNCHANGED <<patients, nextPatientId>>
       ELSE /\ patients' = patients \cup {new_patient(data)}
            /\ nextPatientId' = nextPatientId + 1
            /\ response' = Reply("create", 201, "",
                   [NoBody EXCEPT !.patients = {PatientResponse(new_patient(data))}])
    /\ UNCHANGED <<doctors, nextDoctorId, now, issued, pc, pending, creds>>

\* ------------------------------------------------------------ GET /patients
list_patients(cred) ==
    /\ response' = IF get_current_doctor(cred) = None THEN Unauthenticated("list")
                   ELSE Reply("list", 200, "",
                        [NoBody EXCEPT !.patients = {PatientResponse(p) : p \in patients}])
    /\ UNCHANGED <<doctors, patients, nextDoctorId, nextPatientId, now, issued, pc,
                   pending, creds>>

\* db.query(Patient).filter(Patient.id == patient_id).first(), as a cell.
find_patient(patient_id) ==
    LET found == {p \in patients : p.id = patient_id}
    IN  IF found = {} THEN None ELSE Some(CHOOSE p \in found : TRUE)

\* ------------------------------------------------- GET /patients/{patient_id}
get_patient(cred, patient_id) ==
    /\ response' = IF get_current_doctor(cred) = None THEN Unauthenticated("get")
                   ELSE IF find_patient(patient_id) = None THEN PatientNotFound("get")
                   ELSE Reply("get", 200, "",
                        [NoBody EXCEPT !.patients =
                            {PatientResponse(Val(find_patient(patient_id)))}])
    /\ UNCHANGED <<doctors, patients, nextDoctorId, nextPatientId, now, issued, pc,
                   pending, creds>>

\* ------------------------------------------------- PUT /patients/{patient_id}
\* "for key, value in update_data.items(): setattr(patient, key, value)".
apply_update(row, update_data) ==
    [f \in DOMAIN row |-> IF f \in DOMAIN update_data THEN update_data[f] ELSE row[f]]

update_patient(cred, patient_id, data) ==
    /\ IF get_current_doctor(cred) = None
       THEN response' = Unauthenticated("update") /\ UNCHANGED patients
       ELSE IF PatientUpdate(data) # {}
       THEN response' = ValidationError("update", PatientUpdate(data)) /\ UNCHANGED patients
       ELSE IF find_patient(patient_id) = None
       THEN response' = PatientNotFound("update") /\ UNCHANGED patients
       ELSE LET patient == Val(find_patient(patient_id))
                updated == apply_update(patient, update_dump(data))
            IN  IF ~PatientNotNull(updated)
                THEN response' = ServerFault("update") /\ UNCHANGED patients
                ELSE /\ patients' = (patients \ {patient}) \cup {updated}
                     /\ response' = Reply("update", 200, "",
                            [NoBody EXCEPT !.patients = {PatientResponse(updated)}])
    /\ UNCHANGED <<doctors, nextDoctorId, nextPatientId, now, issued, pc, pending, creds>>

\* delete_patient without Depends(get_current_doctor).
delete_patient_unguarded(cred, patient_id) ==
    /\ IF find_patient(patient_id) = None
       THEN response' = PatientNotFound("delete") /\ UNCHANGED patients
       ELSE /\ patients' = patients \ {Val(find_patient(patient_id))}
            /\ response' = Reply("delete", 200, "Patient deleted successfully", NoBody)
    /\ UNCHANGED <<doctors, nextDoctorId, nextPatientId, now, issued, pc, pending, creds>>

\* ---------------------------------------------- DELETE /patients/{patient_id}
delete_patient(cred, patient_id) ==
    /\ IF get_current_doctor(cred) = None
       THEN response' = Unauthenticated("delete") /\ UNCHANGED patients
       ELSE IF find_patient(patient_id) = None
       THEN response' = PatientNotFound("delete") /\ UNCHANGED patients
       ELSE /\ patients' = patients \ {Val(find_patient(patient_id))}
            /\ response' = Reply("delete", 200, "Patient deleted successfully", NoBody)
    /\ UNCHANGED <<doctors, nextDoctorId, nextPatientId, now, issued, pc, pending, creds>>

\* ------------------------------------------------------------------ inputs
EmailA == <<"a", "x.io">>
EmailB == <<"b", "x.io">>
NotAnEmail == <<"nobody">>

Register(name, email, password) ==
    [name |-> Some(name), email |-> Some(email), password |-> Some(password)]
Login(email, password) == [email |-> Some(email), password |-> Some(password)]

\* What a client can put in the Authorization header: nothing, a token login
\* returned, or a token signed with another key.
Forged == {[sub |-> EmailA, exp |-> MaxTime + ACCESS_TOKEN_EXPIRE_MINUTES + 1,
            sig |-> "attacker-key"]}
Credentials == {None} \cup {Some(t) : t \in issued \cup Forged}

PatientIds == 1..MaxPatientId

\* The patient of the end-to-end scenario: 1.8 m, 90 kg.
PatientX ==
    [name |-> Some("X"), city |-> Some("Pune"), age |-> Some(30),
     gender |-> Some("male"), height |-> Some(180), weight |-> Some(90)]
PatientY ==
    [name |-> Some("Y"), city |-> Some("Delhi"), age |-> Some(119),
     gender |-> Some("others"), height |-> Some(175), weight |-> Some(70),
     diagnosis |-> Some("flu"), prescription |-> Some("rest")]

\* ------------------------------------------- behaviours: the doctor registry
RegisterInputs ==
    {Register("Ann", EmailA, "secret"), Register("Ann", EmailA, "hunter22"),
     Register("Bob", EmailB, "secret"), Register("Ann", EmailA, "abc"),
     Register("Ann", NotAnEmail, "secret")}
LoginInputs ==
    {Login(EmailA, "secret"), Login(EmailA, "hunter22"), Login(EmailB, "hunter22"),
     Login(NotAnEmail, "secret")}

\* Two workers racing in register, logins and /auth/me, the clock running.
Next ==
    \/ Tick
    \/ \E w \in Workers, data \in RegisterInputs : register_lookup(w, data)
    \/ \E w \in Workers : register_insert(w)
    \/ \E data \in LoginInputs : login_doctor(data)
    \/ \E cred \in Credentials : get_current_doctor_info(cred)

Spec == Init /\ [][Next]_vars

\* ----------------------------------------- behaviours: the authorization guard
GuardRegisterInputs == {Register("Ann", EmailA, "secret")}
GuardLoginInputs == {Login(EmailA, "secret"), Login(EmailA, "hunter22")}
GuardCreateInputs == {PatientX, [PatientX EXCEPT !.age = Some(0)]}
GuardUpdateInputs == {("weight" :> Some(70))}

\* Every protected endpoint under every kind of credential, the clock running.
GuardNext ==
    \/ Tick
    \/ \E data \in GuardRegisterInputs : register_lookup(1, data)
    \/ register_insert(1)
    \/ \E data \in GuardLoginInputs : login_doctor(data)
    \/ \E cred \in Credentials : get_current_doctor_info(cred)
    \/ \E cred \in Credentials, data \in GuardCreateInputs : create_patient(cred, data)
    \/ \E cred \in Credentials : list_patients(cred)
    \/ \E cred \in Credentials, id \in PatientIds : get_patient(cred, id)
    \/ \E cred \in Credentials, id \in PatientIds, data \in GuardUpdateInputs :
          update_patient(cred, id, data)
    \/ \E cred \in Credentials, id \in PatientIds : delete_patient(cred, id)

GuardSpec == Init /\ [][GuardNext]_vars

\* ------------------------------------------- behaviours: the patient registry
Without(data, f) == [g \in DOMAIN data \ {f} |-> data[g]]
RequiredOf(data) == [g \in DOMAIN data \ OptionalFields |-> data[g]]

PatientRegisterInputs == {Register("", EmailA, "secret")}
PatientLoginInputs == {Login(EmailA, "secret")}

\* The Authorization header of a client that logged in, or none.
Tokens == {None} \cup {Some(t) : t \in issued}

\* Two valid patients, one with empty name and city, and one payload per way
\* of being out of range, null or incomplete.
PatientCreateInputs ==
    {PatientX, PatientY,
     [PatientX EXCEPT !.name = Some(""), !.city = Some("")],
     [PatientX EXCEPT !.age = Some(0)], [PatientX EXCEPT !.age = Some(120)],
     [PatientX EXCEPT !.height = Some(0)], [PatientX EXCEPT !.weight = Some(-5)],
     [PatientX EXCEPT !.gender = Some("unknown")],
     [PatientX EXCEPT !.name = None], Without(PatientX, "city")}

\* Partial payloads: one field; no field; the six required fields with an
\* explicit null diagnosis and a key that is no field; and one payload per
\* way of being out of range or null.
PatientUpdateInputs ==
    {("city" :> Some("Pune")),
     RequiredOf(PatientX) @@ ("diagnosis" :> None) @@ ("id" :> Some(7)),
     [f \in {} |-> None],
     ("age" :> Some(0)), ("age" :> Some(120)), ("height" :> Some(0)),
     ("weight" :> Some(-5)), ("gender" :> Some("unknown")),
     ("name" :> None), ("age" :> None)}

PatientNext ==
    \/ \E data \in PatientRegisterInputs : register_lookup(1, data)
    \/ register_insert(1)
    \/ \E data \in PatientLoginInputs : login_doctor(data)
    \/ \E cred \in Tokens, data \in PatientCreateInputs : create_patient(cred, data)
    \/ \E cred \in Tokens : list_patients(cred)
    \/ \E cred \in Tokens, id \in PatientIds : get_patient(cred, id)
    \/ \E cred \in Tokens, id \in PatientIds, data \in PatientUpdateInputs :
          update_patient(cred, id, data)
    \/ \E cred \in Tokens, id \in PatientIds : delete_patient(cred, id)

PatientSpec == Init /\ [][PatientNext]_vars

\* --------------------------------------------- behaviours: the derived metric
\* Heights of 1.70, 1.75, 1.80 and 2.00 m against weights that put the bmi
\* inside each bracket and exactly on 18.5, 25.0 and 30.0.
Sized(height, weight) == [PatientX EXCEPT !.height = Some(height), !.weight = Some(weight)]

BmiCreateInputs == {Sized(180, 90), Sized(175, 70), Sized(170, 45), Sized(200, 74)}
BmiUpdateInputs == {("weight" :> Some(70)), ("weight" :> Some(100)), ("weight" :> Some(120))}

BmiNext ==
    \/ \E data \in PatientRegisterInputs : register_lookup(1, data)
    \/ register_insert(1)
    \/ \E data \in PatientLoginInputs : login_doctor(data)
    \/ \E cred \in Tokens, data \in BmiCreateInputs : create_patient(cred, data)
    \/ \E cred \in Tokens : list_patients(cred)
    \/ \E cred \in Tokens, id \in PatientIds : get_patient(cred, id)
    \/ \E cred \in Tokens, id \in PatientIds, data \in BmiUpdateInputs :
          update_patient(cred, id, data)
    \/ \E cred \in Tokens, id \in PatientIds : delete_patient(cred, id)

BmiSpec == Init /\ [][BmiNext]_vars

\* ================================================================== claims
\* A credential the claims call good: a token login returned, not yet past
\* its expiry, whose subject is a stored doctor's email.
Authentic(cred) ==
    /\ cred # None
    /\ Val(cred) \in issued
    /\ now < Val(cred).exp
    /\ \E d \in doctors : d.email = Val(cred).sub

Registered(email) == \E d \in doctors : d.email = email

\* ---------------------------------------------------------------------- C1
EmailsUnique == \A d1, d2 \in doctors : d1.email = d2.email => d1 = d2

\* A register for a stored email answers 400 at the lookup, and an insert
\* that finds the email stored meanwhile is refused; neither adds a row.
DuplicateRegisterRejected ==
    /\ \A w \in Workers, data \in RegisterInputs :
          (register_lookup(w, data) /\ DoctorRegister(data) = {}
              /\ Registered(Val(data.email)))
          => (response'.op = "register" /\ response'.status = 400 /\ doctors' = doctors)
    /\ \A w \in Workers :
          (register_insert(w) /\ Registered(Val(Val(pending[w]).email)))
          => (response'.status = 500 /\ doctors' = doctors)

\* C1: in every reachable state no two doctors share an email; a register
\* whose email is already stored fails with 400 and adds no row; and when two
\* registers of one email interleave between lookup and insert, the second
\* insert is refused by the unique index and adds no row.
C1_UniqueEmail == [](EmailsUnique) /\ [][DuplicateRegisterRejected]_vars

\* Both workers passed the lookup with one email, and the second insert was
\* refused.
C1_Witness ==
    /\ response.op = "register" /\ response.status = 500
    /\ Cardinality(doctors) = 1
    /\ \A w \in Workers : pc[w] = "idle"

\* ---------------------------------------------------------------------- C2
GuardDecides(cred) ==
    /\ (response'.status # 401) <=> Authentic(cred)
    /\ ~Authentic(cred) =>
          /\ response'.challenge /\ response'.patients = {}
          /\ response'.doctor = None /\ response'.token = None
          /\ patients' = patients /\ nextPatientId' = nextPatientId

\* The response names its endpoint, so a step is matched against the
\* requests of that endpoint only; "the request is this one => the guard
\* decided it" is written consequent first.
GuardedStep ==
    \A cred \in Credentials :
       \/ GuardDecides(cred)
       \/ /\ response'.op = "me" => ~get_current_doctor_info(cred)
          /\ response'.op = "list" => ~list_patients(cred)
          /\ response'.op = "create" =>
                \A data \in GuardCreateInputs : ~create_patient(cred, data)
          /\ response'.op = "get" => \A id \in PatientIds : ~get_patient(cred, id)
          /\ response'.op = "delete" => \A id \in PatientIds : ~delete_patient(cred, id)
          /\ response'.op = "update" =>
                \A id \in PatientIds, data \in GuardUpdateInputs :
                   ~update_patient(cred, id, data)

\* C2: each protected endpoint (me, create, list, get, update, delete) is
\* served exactly when the request carries a token login issued, whose expiry
\* has not passed and whose subject is a stored doctor; otherwise (no token, a
\* token signed with another key, an expired token) it answers 401 with the
\* challenge and the patients table is unchanged.
C2_GuardExact == [][GuardedStep]_vars

\* A request served at the last clock value, when a token issued earlier has
\* expired and a patient is stored.
C2_Witness ==
    /\ response.op = "list" /\ response.status = 200
    /\ \E t \in issued : t.exp <= now
    /\ patients # {}

\* ---------------------------------------------------------------------- C3
ValidRegistration(data) ==
    /\ data.name # None
    /\ data.email \in {Some(EmailA), Some(EmailB)}
    /\ data.password # None /\ Len(Val(data.password)) >= 6

RegisterThenLogin ==
    /\ \A w \in Workers, data \in RegisterInputs :
          (register_lookup(w, data) /\ ValidRegistration(data)
              /\ ~Registered(Val(data.email)))
          => (pc'[w] = "insert" /\ response' = response)
    /\ \A w \in Workers :
          (register_insert(w) /\ ~Registered(Val(Val(pending[w]).email)))
          => /\ response'.op = "register" /\ response'.status = 201
             /\ \E d \in doctors' : d.email = Val(Val(pending[w]).email)
    /\ \A data \in LoginInputs :
          (login_doctor(data) /\ <<Val(data.email), Val(data.password)>> \in creds)
          => /\ response'.op = "login" /\ response'.status = 200
             /\ response'.detail = "bearer" /\ response'.token # None
             /\ Val(response'.token).sub = Val(data.email)

\* C3: a valid registration (a name, a well-formed email, a password of at
\* least 6 characters) whose email is not stored succeeds with 201, and every
\* later login with that email and password answers 200 with a bearer token,
\* whatever registers, logins and clock ticks come in between.
C3_RegisterThenLogin == [][RegisterThenLogin]_vars

\* A login answered 200 after both emails were registered and the clock
\* moved.
C3_Witness ==
    /\ response.op = "login" /\ response.status = 200
    /\ Cardinality(doctors) = 2
    /\ now > 0

\* ---------------------------------------------------------------------- C4
LoginFailure ==
    [op |-> "login", status |-> 401, detail |-> "Incorrect email or password",
     errors |-> {}, challenge |-> TRUE, doctor |-> None, token |-> None, patients |-> {}]

LoginFailuresAlike ==
    \A data \in LoginInputs :
       (login_doctor(data) /\ data.email \in {Some(EmailA), Some(EmailB)}
           /\ (~Registered(Val(data.email))
               \/ <<Val(data.email), Val(data.password)>> \notin creds))
       => /\ response' = LoginFailure
          /\ UNCHANGED <<doctors, patients, issued, creds, nextDoctorId, nextPatientId>>

\* C4: a login with an email never registered and a login with a registered
\* email and a wrong password get the same response (401, the same detail,
\* the same challenge header, no token) and change nothing.
C4_LoginFailuresAlike == [][LoginFailuresAlike]_vars

\* Both emails are registered, so the failed login was a wrong password.
C4_Witness == response = LoginFailure /\ Cardinality(doctors) = 2

\* ---------------------------------------------------------------------- C5
Row(table, id) == CHOOSE p \in table : p.id = id
Ids(table) == {p.id : p \in table}

UpdateFrame(id, data) ==
    /\ Ids(patients') = Ids(patients)
    /\ \A p \in patients : p.id # id => p \in patients'
    /\ UNCHANGED <<doctors, nextPatientId, nextDoctorId, issued>>
    /\ id \in Ids(patients) =>
          LET old == Row(patients, id)
              new == Row(patients', id)
          IN  /\ DOMAIN new = DOMAIN old
              /\ \A f \in DOMAIN old \ DOMAIN data : new[f] = old[f]
              /\ new.id = old.id /\ new.created_at = old.created_at
              /\ response'.status = 200 =>
                    /\ \A f \in DOMAIN data \cap PatientFields : new[f] = data[f]
                    /\ \E r \in response'.patients :
                          /\ response'.patients = {r}
                          /\ \A f \in DOMAIN new : r[f] = new[f]
                          /\ r.bmi = bmi(Val(new.weight), Val(new.height))
                          /\ r.verdict = verdict(r.bmi)

\* "The step is update(id, data) => the frame holds", consequent first; a
\* step that answers no 200 and changes no table satisfies every frame.
UpdateIsPartial ==
    response'.op = "update" =>
       \/ /\ response'.status # 200
          /\ UNCHANGED <<patients, doctors, nextPatientId, nextDoctorId, issued>>
       \/ \A id \in PatientIds, data \in PatientUpdateInputs :
             \/ UpdateFrame(id, data)
             \/ \A cred \in Tokens : ~update_patient(cred, id, data)

\* C5: an update of a stored patient sets exactly the fields of the payload:
\* every field the payload omits, the id and created_at keep their values,
\* every other patient row is untouched, and the answer carries the row as it
\* now stands with bmi and verdict computed from its weight and height.
C5_UpdateIsPartial == [][UpdateIsPartial]_vars

\* {city: "Pune"} was applied to patient Y beside another patient: the city
\* changed, the diagnosis stayed.
C5_Witness ==
    /\ response.op = "update" /\ response.status = 200
    /\ Cardinality(patients) = 2
    /\ \E r \in response.patients :
          r.name = Some("Y") /\ r.city = Some("Pune") /\ r.diagnosis = Some("flu")

\* ---------------------------------------------------------------------- C6
\* Whether create rejects this value for this field, the other fields valid.
CreateRejects(f, value) == f \in PatientCreate((f :> value) @@ PatientY)

\* C6: an update of a stored patient carrying, for some field, a value create
\* rejects for that field (an explicit null for a required field included) is
\* answered 422 and the table is unchanged.
C6_UpdateValidatesLikeCreate ==
    [][response'.op = "update" =>
       \A cred \in Tokens, id \in PatientIds, data \in PatientUpdateInputs :
          (update_patient(cred, id, data) /\ Authentic(cred) /\ id \in Ids(patients)
              /\ \E f \in DOMAIN data : CreateRejects(f, data[f]))
          => (response'.status = 422 /\ patients' = patients)]_vars

\* ---------------------------------------------------------------------- C7
InRange(p) ==
    /\ p.age # None /\ Val(p.age) > 0 /\ Val(p.age) < 120
    /\ p.height # None /\ Val(p.height) > 0
    /\ p.weight # None /\ Val(p.weight) > 0
    /\ p.gender \in {Some("male"), Some("female"), Some("others")}

StoredInRange == \A p \in patients : InRange(p)

\* The payload carries an age outside 1..119, a height or weight that is not
\* positive, or a gender outside the enumeration.
OutOfRange(data) ==
    \/ "age" \in DOMAIN data /\ data.age # None
          /\ (Val(data.age) <= 0 \/ Val(data.age) >= 120)
    \/ "height" \in DOMAIN data /\ data.height # None /\ Val(data.height) <= 0
    \/ "weight" \in DOMAIN data /\ data.weight # None /\ Val(data.weight) <= 0
    \/ "gender" \in DOMAIN data /\ data.gender # None
          /\ Val(data.gender) \notin {"male", "female", "others"}

RejectedUnchanged(cred) ==
    /\ patients' = patients /\ nextPatientId' = nextPatientId
    /\ Authentic(cred) => response'.status = 422 /\ response'.patients = {}

OutOfRangeRejected ==
    \A cred \in Tokens :
       \/ RejectedUnchanged(cred)
       \/ /\ response'.op = "create" =>
                \A data \in PatientCreateInputs :
                   OutOfRange(data) => ~create_patient(cred, data)
          /\ response'.op = "update" =>
                \A id \in PatientIds, data \in PatientUpdateInputs :
                   OutOfRange(data) => ~update_patient(cred, id, data)

\* C7: every stored patient has 0 < age < 120, height > 0, weight > 0 and a
\* gender of male, female or others; a create or update carrying age 0, age
\* 120, a height or weight that is not positive, or another gender is
\* answered 422 and neither adds nor changes a row.
C7_PatientsInRange == [](StoredInRange) /\ [][OutOfRangeRejected]_vars

\* An update was refused for its age while a patient of age 119 is stored.
C7_Witness ==
    /\ response.op = "update" /\ response.status = 422 /\ response.errors = {"age"}
    /\ \E p \in patients : p.age = Some(119)

\* ---------------------------------------------------------------------- C8
\* C8 as stated: every stored doctor has a non-empty name and every stored
\* patient a non-empty name and a non-empty city.
C8_NamesNonEmpty ==
    /\ \A d \in doctors : d.name # ""
    /\ \A p \in patients : p.name \notin {None, Some("")} /\ p.city \notin {None, Some("")}

NamesNotNull ==
    /\ \A d \in doctors : d.name \in STRING
    /\ \A p \in patients : p.name # None /\ p.city # None

NullName(data, fields) == \E f \in {"name", "city"} \cap fields : data[f] = None

NullNameRefused ==
    \/ patients' = patients /\ response'.status \in {401, 404, 422, 500}
    \/ \A cred \in Tokens :
          /\ response'.op = "create" =>
                \A data \in PatientCreateInputs :
                   (NullName(create_dump(data), PatientFields)) => ~create_patient(cred, data)
          /\ response'.op = "update" =>
                \A id \in PatientIds, data \in PatientUpdateInputs :
                   NullName(data, DOMAIN data) => ~update_patient(cred, id, data)

\* C8 amended: every stored doctor has a name and every stored patient a name
\* and a city that are strings, never null, and possibly empty; a create or
\* update carrying null (or, for create, nothing) for name or city adds and
\* changes no row.
C8_NamesNotNull == [](NamesNotNull) /\ [][NullNameRefused]_vars

\* A doctor and a patient with empty names are stored, and an update that
\* set a required column to null was refused by the store.
C8_Witness ==
    /\ \E d \in doctors : d.name = ""
    /\ \E p \in patients : p.name = Some("") /\ p.city = Some("")
    /\ response.op = "update" /\ response.status = 500

\* ---------------------------------------------------------------------- C9
Abs(n) == IF n < 0 THEN -n ELSE n

\* bmi (hundredths) is the hundredth nearest to weight / height^2 (cm, kg).
NearestHundredth(b, weight, height) ==
    2 * Abs(b * height * height - weight * 1000000) <= height * height

VerdictOf(r) ==
    /\ r.bmi < 1850 => r.verdict = "Underweight"
    /\ (1850 <= r.bmi /\ r.bmi < 2500) => r.verdict = "Normal"
    /\ (2500 <= r.bmi /\ r.bmi < 3000) => r.verdict = "Overweight"
    /\ r.bmi >= 3000 => r.verdict = "Obese"

\* C9: every patient in a response of create, list, get or update carries
\* the verdict its bmi decides (Underweight below 18.5, Normal from 18.5,
\* Overweight from 25.0, Obese from 30.0, each boundary in the upper bracket),
\* its bmi is weight / height^2 to the nearest hundredth, weight and height
\* are those of the stored row, and no stored row holds a bmi or a verdict.
C9_VerdictFromBmi ==
    /\ \A r \in response.patients :
          /\ response.op \in {"create", "list", "get", "update"}
          /\ VerdictOf(r)
          /\ NearestHundredth(r.bmi, Val(r.weight), Val(r.height))
          /\ \E p \in patients :
                p.id = r.id /\ p.weight = r.weight /\ p.height = r.height
    /\ \A p \in patients : {"bmi", "verdict"} \cap DOMAIN p = {}

\* A list answered with one patient exactly on 25.0 and one exactly on 30.0.
C9_Witness ==
    /\ response.op = "list"
    /\ \E r \in response.patients : r.bmi = 2500 /\ r.verdict = "Overweight"
    /\ \E r \in response.patients : r.bmi = 3000 /\ r.verdict = "Obese"

\* ---------------------------------------------------------------------- C10
Reported(r, weight, height, b, v) ==
    (r.weight = Some(weight) /\ r.height = Some(height)) => (r.bmi = b /\ r.verdict = v)

\* C10 as stated: 70 kg at 1.75 m is reported with bmi 24.49 and Normal, 45
\* kg at 1.70 m with bmi 15.57 and Underweight.
C10_AsStated ==
    \A r \in response.patients :
       /\ Reported(r, 70, 175, 2449, "Normal")
       /\ Reported(r, 45, 170, 1557, "Underweight")

\* C10 amended: 70 kg at 1.75 m is reported with bmi 22.86 and Normal, 45 kg
\* at 1.70 m with bmi 15.57 and Underweight.
C10_Examples ==
    \A r \in response.patients :
       /\ Reported(r, 70, 175, 2286, "Normal")
       /\ Reported(r, 45, 170, 1557, "Underweight")

\* A list answered with both patients of the examples.
C10_Witness ==
    /\ \E r \in response.patients : r.weight = Some(70) /\ r.height = Some(175)
    /\ \E r \in response.patients : r.weight = Some(45) /\ r.height = Some(170)

=============================================================================
